---- MODULE Spec2Model ----
(***************************************************************************)
(* Model of the portfolio backend: the RAG service's initialization guard, *)
(* the Celery task ledger behind POST /process-image/async and             *)
(* GET /task/{task_id}, and the HTTP handlers of main.py.                  *)
(*                                                                         *)
(* Three specifications share one state:                                   *)
(*   SpecInit  concurrent callers of RagService.initialize() and query()   *)
(*   SpecTask  async submissions, the Celery worker and status polls       *)
(*   SpecHttp  the startup event followed by /health, /process-image and   *)
(*             /rag/query requests                                         *)
(***************************************************************************)
EXTENDS Integers, Sequences, FiniteSets, TLC

\* ---------------------------------------------------------------- bounds
NumCallers == 2      \* coroutines that call RagService.initialize()
MaxCalls == 3        \* initialize() calls made in one behaviour
MaxRequests == 3     \* HTTP requests answered in one behaviour
MaxTasks == 2        \* submissions accepted in one behaviour
NumWorkers == 1      \* Celery worker processes
NumSlots == 2        \* requests that can be suspended in a query at once
MaxQueries == 2      \* direct RagService.query() calls in one behaviour
MaxRecords == 3      \* record_* calls made on a MonitoringService directly

Callers == 1..NumCallers
ObjIds == 1..MaxCalls       \* LightRAG objects, one per construction
None == 0                   \* Python's None for object references
TaskIds == 1..(MaxTasks + 1) \* the ids Celery can hand out, and be asked for
Workers == 1..NumWorkers
Slots == 1..NumSlots

VARIABLES
    \* RagService fields (rag_service.py:20-27)
    rag,                  \* self.rag: None or the LightRAG object bound to it
    initialized,          \* self.initialized
    initialization_time,  \* self.initialization_time: None or the call that set it
    total_queries,        \* self.total_queries
    successful_queries,   \* self.successful_queries
    \* the LightRAG objects constructed so far
    storages,             \* objects whose initialize_storages() has completed
    docs,                 \* number of insert() calls each object has received
    \* the coroutines running initialize()
    ipc,                  \* position of each caller inside initialize()
    iobj,                 \* the object the caller constructed in this call
    ncalls,               \* initialize() calls made so far
    setup_runs,           \* calls that passed the guard at line 33
    failures,             \* calls that raised
    \* the HTTP server process
    monitoring_service,   \* the MonitoringService singleton of the server
    nrequests,            \* HTTP requests answered so far
    async_resp,           \* last answer of POST /process-image/async
    task_resp,            \* last answer of GET /task/{task_id}
    first_final,          \* per task id, the first completed/failed answer
    final_answers,        \* per task id, the completed/failed answers given
    image_resp,           \* last answer of POST /process-image
    health_resp,          \* last answer of GET /health
    rag_resp,             \* last answer of POST /rag/query
    inflight,             \* requests suspended in RagService.query
    nqueries,             \* direct RagService.query calls made so far
    query_result,         \* outcome of the last direct RagService.query call
    ran_in_line,          \* blocking calls a handler ran on the event loop
    wrapped,              \* outcome of the last metered unit of work
    \* the Celery broker and result backend (Redis)
    queue,                \* task messages not yet picked up
    meta,                 \* result backend: stored task meta by task id
    issued,               \* task ids returned by submissions
    \* the Celery worker processes
    wpc,                  \* "idle" or "running"
    wtask,                \* the message a worker is executing
    active_run,           \* whether the worker's MLFlow client has an open run
    worker_monitoring,    \* the MonitoringService singleton of each worker
    inference_failed,     \* tasks whose inference raised inside the worker
    inference_succeeded,  \* tasks whose inference returned inside the worker
    tracking_failed,      \* tasks during which an MLFlow call raised
    finished              \* tasks whose execution has ended

ragVars == <<rag, initialized, initialization_time, total_queries,
             successful_queries, storages, docs, ipc, iobj, ncalls,
             setup_runs, failures>>

httpVars == <<monitoring_service, nrequests, async_resp, task_resp,
              first_final, final_answers, image_resp, health_resp, rag_resp,
              inflight, nqueries, query_result, ran_in_line, wrapped>>

\* the RagService state that only initialize() writes
ragSetupVars == <<rag, initialized, initialization_time, storages, docs, ipc,
                  iobj, ncalls, setup_runs, failures>>

taskVars == <<queue, meta, issued, wpc, wtask, active_run, worker_monitoring,
              inference_failed, inference_succeeded, tracking_failed,
              finished>>

vars == <<ragVars, httpVars, taskVars>>

\* ------------------------------------------------- RagService.__init__
RagInit ==
    /\ rag = None
    /\ initialized = FALSE
    /\ initialization_time = None
    /\ total_queries = 0
    /\ successful_queries = 0
    /\ storages = {}
    /\ docs = [o \in ObjIds |-> 0]
    /\ ipc = [c \in Callers |-> "idle"]
    /\ iobj = [c \in Callers |-> None]
    /\ ncalls = 0
    /\ setup_runs = 0
    /\ failures = 0

\* ------------------------------------------ RagService.initialize()
\* A faulty except clause that clears the guard when a call fails.
InitializeFailedResets(c) ==
    /\ ipc' = [ipc EXCEPT ![c] = "raised"]
    /\ failures' = failures + 1
    /\ initialized' = FALSE
    /\ UNCHANGED <<initialization_time, total_queries, successful_queries>>

\* A faulty except clause that leaves the guard set after a failure.
InitializeFailedCached(c) ==
    /\ ipc' = [ipc EXCEPT ![c] = "raised"]
    /\ failures' = failures + 1
    /\ initialized' = TRUE
    /\ UNCHANGED <<initialization_time, total_queries, successful_queries>>

\* The except clause at lines 92-94: the call raises RuntimeError; nothing
\* the body assigned so far is undone and self.initialized is not touched.
InitializeFailed(c) ==
    /\ ipc' = [ipc EXCEPT ![c] = "raised"]
    /\ failures' = failures + 1
    /\ UNCHANGED <<initialized, initialization_time, total_queries,
                   successful_queries>>

\* Lines 96-100: reached only when the try block ran to its end.
InitializeCompleted(c) ==
    /\ ipc' = [ipc EXCEPT ![c] = "done"]
    /\ initialized' = TRUE
    /\ initialization_time' = ncalls
    /\ UNCHANGED <<failures, total_queries, successful_queries>>

\* Lines 33-53: the guard, makedirs and the LightRAG constructor run without
\* an await in between; the coroutine then suspends in initialize_storages().
InitializeEnter(c) ==
    /\ ipc[c] = "idle"
    /\ ncalls < MaxCalls
    /\ ncalls' = ncalls + 1
    /\ IF initialized
       THEN /\ ipc' = [ipc EXCEPT ![c] = "skipped"]
            /\ UNCHANGED <<rag, initialized, initialization_time,
                           total_queries, successful_queries, storages, docs,
                           iobj, setup_runs, failures>>
       ELSE /\ setup_runs' = setup_runs + 1
            /\ UNCHANGED <<storages, docs>>
            /\ \E constructed \in BOOLEAN :
                 IF constructed
                 THEN /\ rag' = setup_runs + 1
                      /\ iobj' = [iobj EXCEPT ![c] = setup_runs + 1]
                      /\ ipc' = [ipc EXCEPT ![c] = "storages"]
                      /\ UNCHANGED <<initialized, initialization_time,
                                     total_queries, successful_queries,
                                     failures>>
                 ELSE /\ InitializeFailed(c)
                      /\ UNCHANGED <<rag, iobj>>
    /\ UNCHANGED <<httpVars, taskVars>>

\* Line 53: await self.rag.initialize_storages(), on the object this call
\* constructed (self.rag was read before the coroutine suspended).
InitializeStorages(c) ==
    /\ ipc[c] = "storages"
    /\ UNCHANGED <<rag, docs, iobj, ncalls, setup_runs>>
    /\ \E ok \in BOOLEAN :
         IF ok
         THEN /\ storages' = storages \cup {iobj[c]}
              /\ ipc' = [ipc EXCEPT ![c] = "pipeline"]
              /\ UNCHANGED <<initialized, initialization_time, total_queries,
                             successful_queries, failures>>
         ELSE /\ InitializeFailed(c)
              /\ UNCHANGED storages
    /\ UNCHANGED <<httpVars, taskVars>>

\* Lines 54-68: await initialize_pipeline_status(); then, without another
\* await, the resume file is looked up and read and the insert is handed to
\* the executor.  Without a resume file the call falls through to line 96.
InitializePipelineStatus(c) ==
    /\ ipc[c] = "pipeline"
    /\ UNCHANGED <<rag, storages, docs, iobj, ncalls, setup_runs>>
    /\ \E ok \in BOOLEAN, resume_is_file \in BOOLEAN, readable \in BOOLEAN :
         IF ~ok \/ (resume_is_file /\ ~readable)
         THEN InitializeFailed(c)
         ELSE IF resume_is_file
              THEN /\ ipc' = [ipc EXCEPT ![c] = "insert"]
                   /\ UNCHANGED <<initialized, initialization_time,
                                  total_queries, successful_queries, failures>>
              ELSE InitializeCompleted(c)
    /\ UNCHANGED <<httpVars, taskVars>>

\* Lines 68-100: the executor runs self.rag.insert(resume_content) on whatever
\* object self.rag is bound to by then; log_model_params swallows its errors.
InitializeInsert(c) ==
    /\ ipc[c] = "insert"
    /\ UNCHANGED <<rag, storages, iobj, ncalls, setup_runs>>
    /\ \E ok \in BOOLEAN :
         IF ok
         THEN /\ docs' = [docs EXCEPT ![rag] = @ + 1]
              /\ InitializeCompleted(c)
         ELSE /\ InitializeFailed(c)
              /\ UNCHANGED docs
    /\ UNCHANGED <<httpVars, taskVars>>

\* The caller, having got its answer, is free to call initialize() again.
InitializeReturn(c) ==
    /\ ipc[c] \in {"skipped", "done", "raised"}
    /\ ncalls < MaxCalls
    /\ ipc' = [ipc EXCEPT ![c] = "idle"]
    /\ iobj' = [iobj EXCEPT ![c] = None]
    /\ UNCHANGED <<rag, initialized, initialization_time, total_queries,
                   successful_queries, storages, docs, ncalls, setup_runs,
                   failures>>
    /\ UNCHANGED <<httpVars, taskVars>>

Initialize(c) ==
    \/ InitializeEnter(c)
    \/ InitializeStorages(c)
    \/ InitializePipelineStatus(c)
    \/ InitializeInsert(c)

\* ------------------------------------------------ MonitoringService
\* A counter that starts again from zero after its first increment.
IncWrapping(f, k) ==
    IF k \in DOMAIN f THEN [f EXCEPT ![k] = (@ + 1) % 2] ELSE f @@ (k :> 1)

\* .labels(...).inc() / .observe(): the label set is created on first use.
Inc(f, k) == IF k \in DOMAIN f THEN [f EXCEPT ![k] = @ + 1] ELSE f @@ (k :> 1)

Count(f, k) == IF k \in DOMAIN f THEN f[k] ELSE 0

\* MonitoringService.__init__: every metric starts without label sets.
\* Histograms are kept as their observation counts.
\* The two gauges are kept as their current values.
NewMonitoringService ==
    [request_counter |-> <<>>, request_duration |-> <<>>,
     prediction_counter |-> <<>>, prediction_duration |-> <<>>,
     file_upload_size |-> <<>>, file_upload_counter |-> <<>>,
     active_connections |-> 0, model_memory_usage |-> <<>>]

\* A record_request that counts the request and loses its duration.
record_request_unobserved(m, method, endpoint, status) ==
    [m EXCEPT !.request_counter = Inc(@, <<method, endpoint, status>>)]

record_request(m, method, endpoint, status) ==
    [m EXCEPT !.request_counter = Inc(@, <<method, endpoint, status>>),
              !.request_duration = Inc(@, <<method, endpoint>>)]

record_prediction(m, model_name, status, image_size) ==
    [m EXCEPT !.prediction_counter = Inc(@, <<model_name, status>>),
              !.prediction_duration = Inc(@, model_name),
              !.file_upload_size =
                  IF image_size > 0 THEN Inc(@, "image") ELSE @]

record_file_upload(m, file_type, status, file_size) ==
    [m EXCEPT !.file_upload_counter = Inc(@, <<file_type, status>>),
              !.file_upload_size =
                  IF file_size > 0 THEN Inc(@, file_type) ELSE @]

\* Lines 99-105: the gauges are set to the value given.
set_active_connections(m, count) == [m EXCEPT !.active_connections = count]

set_model_memory_usage(m, model_name, memory_bytes) ==
    [m EXCEPT !.model_memory_usage = (model_name :> memory_bytes) @@ @]

\* The sum of the values of a counter's label sets.
RECURSIVE SumOf(_)
SumOf(f) ==
    IF DOMAIN f = {} THEN 0
    ELSE LET k == CHOOSE j \in DOMAIN f : TRUE
         IN  f[k] + SumOf([j \in DOMAIN f \ {k} |-> f[j]])

\* record_* calls a registry has received.
Recorded(m) ==
    SumOf(m.request_counter) + SumOf(m.prediction_counter)
        + SumOf(m.file_upload_counter)

\* ------------------------------------------------------------ settings
allowed_file_types == {"image/jpeg", "image/png", "image/jpg"}

max_file_size == 1      \* settings.max_file_size, scaled down

ContentTypes == {"image/jpeg", "text/plain"}   \* what a client may send
FileSizes == 0..(max_file_size + 1)            \* len(contents)

\* ------------------------------------------------------ exceptions
HTTPException(status_code, detail) ==
    [type |-> "HTTPException", status_code |-> status_code, detail |-> detail]

Exception(text) == [type |-> "Exception", status_code |-> 0, detail |-> text]

\* str(e): Starlette renders an HTTPException as "<status_code>: <detail>".
Str(e) ==
    IF e.type = "HTTPException"
    THEN IF e.status_code = 400 THEN "400: Invalid file type"
         ELSE IF e.status_code = 413 THEN "413: File too large"
         ELSE e.detail
    ELSE e.detail

\* ----------------------------------------- CutlerService.process_image
\* A wrapper whose except clause records the error and re-raises it.
CutlerProcessImageReraises(m, image_size, inference_ok) ==
    IF inference_ok
    THEN [result |-> [success |-> TRUE, error |-> ""], raised |-> <<>>,
          monitoring |-> record_prediction(m, "cutler", "success", image_size)]
    ELSE [result |-> [success |-> FALSE, error |-> "inference failed"],
          raised |-> <<Exception("inference failed")>>,
          monitoring |-> record_prediction(m, "cutler", "error", image_size)]

\* The whole body is one try block: an inference failure is recorded as an
\* "error" prediction and comes back as a normal return value; the call
\* itself raises nothing.
CutlerProcessImage(m, image_size, inference_ok) ==
    IF inference_ok
    THEN [result |-> [success |-> TRUE, error |-> ""], raised |-> <<>>,
          monitoring |-> record_prediction(m, "cutler", "success", image_size)]
    ELSE [result |-> [success |-> FALSE, error |-> "inference failed"],
          raised |-> <<>>,
          monitoring |-> record_prediction(m, "cutler", "error", image_size)]

\* What a caller of a metered unit of work got: the exception it raised or
\* the value it returned.
Outcome(op, failed, raised, result) ==
    [op |-> op, failed |-> failed, raised |-> raised,
     returned |-> IF raised = <<>> THEN <<result>> ELSE <<>>]

\* ------------------------------------------- the server process at start
NoResponse == [status_code |-> 0]
NoRequest == [handler |-> "none"]
NoOutcome == [op |-> "none"]
NoTask == [id |-> None, size |-> 0]     \* a worker without a message

\* A coroutine that suspends takes the first slot not in use.
FreeSlot(s) ==
    /\ inflight[s] = NoRequest
    /\ \A r \in Slots : r < s => inflight[r] # NoRequest

HttpInit ==
    /\ monitoring_service = NewMonitoringService
    /\ nrequests = 0
    /\ async_resp = NoResponse
    /\ task_resp = NoResponse
    /\ first_final = [t \in TaskIds |-> NoResponse]
    /\ final_answers = [t \in TaskIds |-> 0]
    /\ image_resp = NoResponse
    /\ health_resp = NoResponse
    /\ rag_resp = NoResponse
    /\ inflight = [s \in Slots |-> NoRequest]
    /\ nqueries = 0
    /\ query_result = NoOutcome
    /\ ran_in_line = {}
    /\ wrapped = NoOutcome

TaskInit ==
    /\ queue = <<>>
    /\ meta = <<>>
    /\ issued = {}
    /\ wpc = [w \in Workers |-> "idle"]
    /\ wtask = [w \in Workers |-> NoTask]
    /\ active_run = [w \in Workers |-> FALSE]
    /\ worker_monitoring = [w \in Workers |-> NewMonitoringService]
    /\ inference_failed = {}
    /\ inference_succeeded = {}
    /\ tracking_failed = {}
    /\ finished = {}

\* ------------------------------------------------- the result backend
\* Celery's default, under which a worker does not report STARTED.
task_track_started_off == FALSE

\* celery_app.conf.update(task_track_started=True)
task_track_started == TRUE

READY_STATES == {"SUCCESS", "FAILURE"}

\* AsyncResult(task_id) reads the backend; an id with no stored meta is
\* reported as PENDING with no result.
get_task_meta(task_id) ==
    IF task_id \in DOMAIN meta
    THEN meta[task_id]
    ELSE [status |-> "PENDING", result |-> <<>>, exc |-> ""]

store_result(task_id, status, result, exc) ==
    [t \in (DOMAIN meta) \cup {task_id} |->
        IF t = task_id
        THEN [status |-> status, result |-> result, exc |-> exc]
        ELSE meta[t]]

\* ------------------------------------ POST /process-image/async (main.py)
\* except Exception at lines 255-257: every exception raised in the try
\* block, the handler's own HTTPExceptions included, becomes a 500.
process_image_async_endpoint_except(e) == HTTPException(500, Str(e))

\* A broker client that hands out an id it has handed out before.
fresh_task_id_reused ==
    IF issued = {} THEN Cardinality(issued) + 1 ELSE CHOOSE t \in issued : TRUE

\* process_image_async.delay() returns a task with an id no earlier task
\* has; the ids are numbered here in the order they are handed out.
fresh_task_id == Cardinality(issued) + 1

\* Upload checks that look at the content type only.
validate_upload_type_only(content_type, size) ==
    IF content_type \notin allowed_file_types
    THEN <<HTTPException(400, "Invalid file type")>>
    ELSE <<>>

\* The upload checks shared by both image endpoints (lines 192-200, 229-237):
\* the exception they raise, or None.
validate_upload(content_type, size) ==
    IF content_type \notin allowed_file_types
    THEN <<HTTPException(400, "Invalid file type")>>
    ELSE IF size > max_file_size
         THEN <<HTTPException(413, "File too large")>>
         ELSE <<>>

\* A call that waits for the task's result before it returns, as delay()
\* followed by get() does, or delay() alone under task_always_eager.
delay_and_get(task_id, size) ==
    /\ issued' = issued \cup {task_id}
    /\ meta' = store_result(task_id, "SUCCESS",
                            <<[success |-> TRUE, error |-> ""]>>, "")
    /\ UNCHANGED queue

\* Lines 247-250: process_image_async.delay(contents, file.filename) puts
\* the task message on the broker's queue and returns the task's handle;
\* nothing is stored in the result backend.
delay(task_id, size) ==
    /\ queue' = Append(queue, [id |-> task_id, size |-> size])
    /\ issued' = issued \cup {task_id}
    /\ UNCHANGED meta

process_image_async_endpoint ==
    /\ nrequests < MaxRequests
    /\ nrequests' = nrequests + 1
    /\ \E content_type \in ContentTypes, size \in FileSizes,
          broker_up \in BOOLEAN :
         LET request == [content_type |-> content_type, size |-> size]
             task_id == fresh_task_id
             invalid == validate_upload(content_type, size)
             accepted == invalid = <<>> /\ broker_up
             raised == IF invalid # <<>> THEN invalid[1]
                       ELSE Exception("broker unavailable")
             error == process_image_async_endpoint_except(raised)
             uploaded == IF invalid = <<>>
                         THEN record_file_upload(monitoring_service,
                                                 content_type, "success", size)
                         ELSE monitoring_service
             status_code == IF accepted THEN 200 ELSE error.status_code
         IN  /\ accepted => Cardinality(issued) < MaxTasks
             /\ async_resp' =
                  IF accepted
                  THEN [status_code |-> 200, request |-> request,
                        task_id |-> task_id, status |-> "processing",
                        detail |-> ""]
                  ELSE [status_code |-> error.status_code, request |-> request,
                        task_id |-> None, status |-> "",
                        detail |-> error.detail]
             /\ IF accepted THEN delay(task_id, size)
                ELSE UNCHANGED <<queue, issued, meta>>
             /\ monitoring_service' =
                  record_request(uploaded, "POST",
                                 <<"/process-image/async", 0>>, status_code)
    /\ UNCHANGED <<task_resp, first_final, final_answers, image_resp,
                   health_resp, rag_resp, inflight, nqueries, query_result,
                   ran_in_line, wrapped>>
    /\ UNCHANGED <<wpc, wtask, active_run, worker_monitoring,
                   inference_failed, inference_succeeded, tracking_failed,
                   finished>>
    /\ UNCHANGED ragVars

\* ------------------------------------------- GET /task/{task_id} (main.py)
\* Lines 266-283.  AsyncResult caches the meta once it is in a ready state,
\* so ready(), successful(), result and info answer from one read.
\* A faulty handler that takes a started task for a finished one.
task_status_body_started_ready(task_id, m) ==
    IF m.status \in READY_STATES \cup {"STARTED"}
    THEN IF m.status # "FAILURE"
         THEN [task_id |-> task_id, status |-> "completed",
               result |-> m.result, error |-> ""]
         ELSE [task_id |-> task_id, status |-> "failed",
               result |-> <<>>, error |-> m.exc]
    ELSE [task_id |-> task_id, status |-> "processing",
          result |-> <<>>, error |-> ""]

task_status_body(task_id, m) ==
    IF m.status \in READY_STATES
    THEN IF m.status = "SUCCESS"
         THEN [task_id |-> task_id, status |-> "completed",
               result |-> m.result, error |-> ""]
         ELSE [task_id |-> task_id, status |-> "failed",
               result |-> <<>>, error |-> m.exc]
    ELSE [task_id |-> task_id, status |-> "processing",
          result |-> <<>>, error |-> ""]

get_task_status ==
    /\ nrequests < MaxRequests
    /\ nrequests' = nrequests + 1
    /\ \E task_id \in TaskIds, backend_up \in BOOLEAN :
         LET body == task_status_body(task_id, get_task_meta(task_id))
             status_code == IF backend_up THEN 200 ELSE 500
         IN  /\ task_resp' =
                  IF backend_up
                  THEN [status_code |-> 200, body |-> body,
                        known |-> task_id \in issued, detail |-> ""]
                  ELSE [status_code |-> 500,
                        body |-> [task_id |-> task_id, status |-> "",
                                  result |-> <<>>, error |-> ""],
                        known |-> task_id \in issued,
                        detail |-> "backend unavailable"]
             /\ first_final' =
                  IF /\ backend_up
                     /\ body.status \in {"completed", "failed"}
                     /\ first_final[task_id] = NoResponse
                  THEN [first_final EXCEPT ![task_id] = task_resp']
                  ELSE first_final
             /\ final_answers' =
                  IF backend_up /\ body.status \in {"completed", "failed"}
                  THEN [final_answers EXCEPT ![task_id] = @ + 1]
                  ELSE final_answers
             /\ monitoring_service' =
                  record_request(monitoring_service, "GET",
                                 <<"/task/", task_id>>, status_code)
    /\ UNCHANGED <<async_resp, image_resp, health_resp, rag_resp, inflight,
                   nqueries, query_result, ran_in_line, wrapped>>
    /\ UNCHANGED <<taskVars, ragVars>>

\* -------------------------- GET /task/{task_id}, one backend read at a time
\* AsyncResult._get_task_meta: the handle answers from its cache once it has
\* read a ready state, and reads the backend otherwise.
AsyncResult_get_task_meta(cache, task_id) ==
    IF cache # <<>> THEN cache[1] ELSE get_task_meta(task_id)

\* AsyncResult._maybe_set_cache: only a ready state is kept.
AsyncResult_maybe_set_cache(cache, m) ==
    IF cache = <<>> /\ m.status \in READY_STATES THEN <<m>> ELSE cache

\* A handler that asks successful() first and ready() second.
get_task_status_step_successful_first(pc, task_id, m) ==
    CASE pc = "ready" ->
           IF m.status = "SUCCESS" THEN [goto |-> "result"]
           ELSE [goto |-> "successful"]
      [] pc = "successful" ->
           IF m.status \in READY_STATES THEN [goto |-> "info"]
           ELSE [goto |-> "return",
                 body |-> [task_id |-> task_id, status |-> "processing",
                           result |-> <<>>, error |-> ""]]
      [] pc = "result" ->
           [goto |-> "return",
            body |-> [task_id |-> task_id, status |-> "completed",
                      result |-> m.result, error |-> ""]]
      [] OTHER ->
           [goto |-> "return",
            body |-> [task_id |-> task_id, status |-> "failed",
                      result |-> <<>>, error |-> m.exc]]

\* Lines 269-283: what the handler does with the meta each call on the
\* handle gives it: ready() at line 269, successful() at line 270,
\* task.result at line 274, task.info at line 280.
get_task_status_step(pc, task_id, m) ==
    CASE pc = "ready" ->
           IF m.status \in READY_STATES THEN [goto |-> "successful"]
           ELSE [goto |-> "return",
                 body |-> [task_id |-> task_id, status |-> "processing",
                           result |-> <<>>, error |-> ""]]
      [] pc = "successful" ->
           IF m.status = "SUCCESS" THEN [goto |-> "result"]
           ELSE [goto |-> "info"]
      [] pc = "result" ->
           [goto |-> "return",
            body |-> [task_id |-> task_id, status |-> "completed",
                      result |-> m.result, error |-> ""]]
      [] OTHER ->
           [goto |-> "return",
            body |-> [task_id |-> task_id, status |-> "failed",
                      result |-> <<>>, error |-> m.exc]]

\* Line 267: celery_app.AsyncResult(task_id) makes the handle; it reads
\* nothing yet.
get_task_status_begin(s) ==
    /\ nrequests < MaxRequests
    /\ FreeSlot(s)
    /\ nrequests' = nrequests + 1
    /\ \E task_id \in TaskIds :
         inflight' = [inflight EXCEPT ![s] =
             [handler |-> "get_task_status", pc |-> "ready",
              task_id |-> task_id, cache |-> <<>>, reads |-> {}, nreads |-> 0]]
    /\ UNCHANGED <<monitoring_service, async_resp, task_resp, first_final,
                   final_answers, image_resp, health_resp, rag_resp, nqueries,
                   query_result, ran_in_line, wrapped>>
    /\ UNCHANGED <<taskVars, ragVars>>

\* One call on the handle: it reads the backend, unless its cache answers,
\* and the handler goes on or returns.  A read that fails ends in the
\* except clause (lines 285-287).
get_task_status_read(s) ==
    /\ inflight[s].handler = "get_task_status"
    /\ \E backend_up \in BOOLEAN :
         LET poll == inflight[s]
             m == AsyncResult_get_task_meta(poll.cache, poll.task_id)
             step == get_task_status_step(poll.pc, poll.task_id, m)
             reads == poll.reads \cup {m}
             nreads == poll.nreads + 1
         IN  /\ poll.cache # <<>> => backend_up
             /\ IF ~backend_up
                THEN /\ task_resp' =
                          [status_code |-> 500,
                           body |-> [task_id |-> poll.task_id, status |-> "",
                                     result |-> <<>>, error |-> ""],
                           known |-> poll.task_id \in issued,
                           detail |-> "backend unavailable",
                           reads |-> poll.reads, nreads |-> poll.nreads]
                     /\ inflight' = [inflight EXCEPT ![s] = NoRequest]
                     /\ monitoring_service' =
                          record_request(monitoring_service, "GET",
                                         <<"/task/", poll.task_id>>, 500)
                ELSE IF step.goto = "return"
                THEN /\ task_resp' =
                          [status_code |-> 200, body |-> step.body,
                           known |-> poll.task_id \in issued, detail |-> "",
                           reads |-> reads, nreads |-> nreads]
                     /\ inflight' = [inflight EXCEPT ![s] = NoRequest]
                     /\ monitoring_service' =
                          record_request(monitoring_service, "GET",
                                         <<"/task/", poll.task_id>>, 200)
                ELSE /\ inflight' = [inflight EXCEPT ![s] =
                          [poll EXCEPT
                              !.pc = step.goto,
                              !.cache = AsyncResult_maybe_set_cache(@, m),
                              !.reads = reads, !.nreads = nreads]]
                     /\ UNCHANGED <<task_resp, monitoring_service>>
    /\ UNCHANGED <<nrequests, async_resp, first_final, final_answers,
                   image_resp, health_resp, rag_resp, nqueries, query_result,
                   ran_in_line, wrapped>>
    /\ UNCHANGED <<taskVars, ragVars>>

\* ------------------------------------------------- the Celery worker
\* A worker that acknowledges the oldest message and then drops it.
WorkerPickUpLosesTask(w) ==
    /\ wpc[w] = "idle"
    /\ queue # <<>>
    /\ queue' = Tail(queue)
    /\ UNCHANGED <<meta, wpc, wtask, issued, active_run, worker_monitoring,
                   inference_failed, inference_succeeded, tracking_failed,
                   finished>>
    /\ UNCHANGED <<httpVars, ragVars>>

\* A free worker takes the oldest message; with task_track_started the
\* STARTED state is stored before the task body runs.
WorkerPickUp(w) ==
    /\ wpc[w] = "idle"
    /\ queue # <<>>
    /\ wpc' = [wpc EXCEPT ![w] = "running"]
    /\ wtask' = [wtask EXCEPT ![w] = Head(queue)]
    /\ queue' = Tail(queue)
    /\ meta' = IF task_track_started
               THEN store_result(Head(queue).id, "STARTED", <<>>, "")
               ELSE meta
    /\ UNCHANGED <<issued, active_run, worker_monitoring, inference_failed,
                   inference_succeeded, tracking_failed, finished>>
    /\ UNCHANGED <<httpVars, ragVars>>

\* process_image_async (celery_service.py:31-110), followed by Celery storing
\* what the task returned (SUCCESS) or raised (FAILURE).  The paths:
\*   "import"     an import at lines 38-40 raises: the except clause then
\*                finds monitoring_service unbound and raises itself
\*   "load"       CutlerService() raises while loading the model
\*   "start_run"  mlflow_service.start_run raises: the tracker is down, or a
\*                run opened by this process is still active
\*   "ok"         the inference returns
\*   "inference"  the inference raises inside CutlerService.process_image
\*   "soft_limit" task_soft_time_limit: SoftTimeLimitExceeded arrives after
\*                start_run, outside CutlerService.process_image
\* end_run swallows its own failure, which can leave the run active;
\* log_prediction_metrics, called when the inference returned a success,
\* swallows its failure too (log_ok).
TaskPaths == {"import", "load", "start_run", "ok", "inference", "soft_limit"}

\* The text of the exception the step of the body raised.
RaisedText(path) ==
    CASE path = "import" -> "ImportError"
      [] path = "load" -> "model load failed"
      [] path = "start_run" -> "start_run failed"
      [] OTHER -> "SoftTimeLimitExceeded"

\* Lines 96-110: the text of the exception that leaves the task.  The except
\* clause calls monitoring_service.record_prediction and then re-raises; the
\* name is a local of the function, bound by the import at line 40, so after
\* a failed import the call itself raises UnboundLocalError.
TaskErrorText(path) ==
    IF path = "import" THEN "UnboundLocalError: monitoring_service"
    ELSE RaisedText(path)

process_image_async(w) ==
    /\ wpc[w] = "running"
    /\ \E path \in TaskPaths, end_run_ok \in BOOLEAN, log_ok \in BOOLEAN :
         LET task == wtask[w]
             m == worker_monitoring[w]
             returned == path \in {"ok", "inference"}
             run == CutlerProcessImage(m, task.size, path = "ok")
         IN  /\ path \in {"ok", "inference", "soft_limit"} => ~active_run[w]
             /\ ~returned => end_run_ok
             /\ path # "ok" => log_ok
             /\ worker_monitoring' = [worker_monitoring EXCEPT ![w] =
                  IF returned
                  THEN record_prediction(run.monitoring, "cutler",
                          IF run.result.success THEN "success" ELSE "error",
                          task.size)
                  ELSE IF path = "import" THEN m
                  ELSE record_prediction(m, "cutler", "error", task.size)]
             /\ active_run' = [active_run EXCEPT ![w] =
                  IF returned THEN ~end_run_ok
                  ELSE IF path = "soft_limit" THEN TRUE ELSE @]
             /\ meta' =
                  IF returned
                  THEN store_result(task.id, "SUCCESS", <<run.result>>, "")
                  ELSE store_result(task.id, "FAILURE", <<>>,
                                    TaskErrorText(path))
             /\ inference_failed' =
                  IF path = "inference" THEN inference_failed \cup {task.id}
                  ELSE inference_failed
             /\ inference_succeeded' =
                  IF path = "ok" THEN inference_succeeded \cup {task.id}
                  ELSE inference_succeeded
             /\ tracking_failed' =
                  IF path = "start_run" \/ ~end_run_ok \/ ~log_ok
                  THEN tracking_failed \cup {task.id}
                  ELSE tracking_failed
             /\ finished' = finished \cup {task.id}
    /\ wpc' = [wpc EXCEPT ![w] = "idle"]
    /\ wtask' = [wtask EXCEPT ![w] = NoTask]
    /\ UNCHANGED <<queue, issued>>
    /\ UNCHANGED <<httpVars, ragVars>>

\* A crash under task_acks_late with reject_on_worker_lost: the broker
\* delivers the message again.
WorkerCrashRequeues(w) ==
    /\ wpc[w] = "running"
    /\ wpc' = [wpc EXCEPT ![w] = "idle"]
    /\ queue' = Append(queue, wtask[w])
    /\ wtask' = [wtask EXCEPT ![w] = NoTask]
    /\ active_run' = [active_run EXCEPT ![w] = FALSE]
    /\ worker_monitoring' = [worker_monitoring EXCEPT
                                 ![w] = NewMonitoringService]
    /\ UNCHANGED <<meta, issued, inference_failed, inference_succeeded,
                   tracking_failed, finished>>
    /\ UNCHANGED <<httpVars, ragVars>>

\* The worker instance dies in the middle of a task and a new one takes its
\* place.  celery_app.conf (lines 18-29) sets neither task_acks_late nor
\* task_reject_on_worker_lost, so the message was acknowledged when the task
\* was picked up and the broker does not deliver it again; the time limits of
\* lines 25-26 are enforced by the worker that died.  The new process has its
\* own metrics registry and no MLflow run.
WorkerCrash(w) ==
    /\ wpc[w] = "running"
    /\ wpc' = [wpc EXCEPT ![w] = "idle"]
    /\ wtask' = [wtask EXCEPT ![w] = NoTask]
    /\ active_run' = [active_run EXCEPT ![w] = FALSE]
    /\ worker_monitoring' = [worker_monitoring EXCEPT
                                 ![w] = NewMonitoringService]
    /\ UNCHANGED <<queue, meta, issued, inference_failed, inference_succeeded,
                   tracking_failed, finished>>
    /\ UNCHANGED <<httpVars, ragVars>>

\* ------------------------------------------------ startup_event (main.py)
\* startup_event awaits rag_service.initialize() once and swallows what it
\* raises; requests are served once it has ended, either way.
StartupCaller == 1

\* A startup that calls initialize() again after a failed call.
startup_event_retrying ==
    /\ \A c \in Callers \ {StartupCaller} : ipc[c] = "idle"
    /\ \/ Initialize(StartupCaller)
       \/ ipc[StartupCaller] = "raised" /\ InitializeReturn(StartupCaller)

startup_event ==
    /\ Initialize(StartupCaller)
    /\ \A c \in Callers \ {StartupCaller} : ipc[c] = "idle"

Serving == ipc[StartupCaller] \in {"done", "raised"}

\* -------------------------------------------- POST /process-image (main.py)
\* A faulty handler without the "except HTTPException: raise" clause.
process_image_except_all(e) == HTTPException(500, Str(e))

\* Lines 217-221: an HTTPException raised in the try block is re-raised as it
\* is, anything else becomes a 500.
process_image_except(e) ==
    IF e.type = "HTTPException" THEN e ELSE HTTPException(500, Str(e))

\* A faulty handler that answers with whatever the service returned.
process_image_result_unchecked(result) == <<>>

\* Lines 212-213: a result with success False is raised as a 500 whose
\* detail is the error text.
process_image_result(result) ==
    IF ~result.success THEN <<HTTPException(500, result.error)>> ELSE <<>>

\* Lines 190-215.  file.read() can fail once the content type has passed.
\* The inference is called in line, so the handler runs from the size check
\* to its answer without suspending; so is the log_prediction_metrics call
\* that CutlerService.process_image makes after a successful inference.
process_image ==
    /\ Serving
    /\ nrequests < MaxRequests
    /\ nrequests' = nrequests + 1
    /\ \E content_type \in ContentTypes, size \in FileSizes,
          read_ok \in BOOLEAN, inference_ok \in BOOLEAN :
         LET request == [content_type |-> content_type, size |-> size,
                         read_ok |-> read_ok, inference_ok |-> inference_ok]
             invalid == validate_upload(content_type, size)
             read_failed == content_type \in allowed_file_types /\ ~read_ok
             checked == invalid = <<>> /\ ~read_failed
             uploaded == record_file_upload(monitoring_service, content_type,
                                            "success", size)
             run == CutlerProcessImage(uploaded, size, inference_ok)
             raised ==
                 IF read_failed THEN <<Exception("upload read failed")>>
                 ELSE IF invalid # <<>> THEN invalid
                 ELSE IF run.raised # <<>> THEN run.raised
                 ELSE process_image_result(run.result)
             error == process_image_except(raised[1])
             status_code == IF raised = <<>> THEN 200 ELSE error.status_code
         IN  /\ ~checked => inference_ok
             /\ ran_in_line' =
                  IF ~checked THEN ran_in_line
                  ELSE IF inference_ok
                       THEN ran_in_line \cup {"inference", "tracking"}
                       ELSE ran_in_line \cup {"inference"}
             /\ wrapped' =
                  IF checked
                  THEN Outcome("cutler", ~inference_ok, run.raised, run.result)
                  ELSE wrapped
             /\ image_resp' =
                  IF raised = <<>>
                  THEN [status_code |-> 200, request |-> request,
                        result |-> <<run.result>>, detail |-> ""]
                  ELSE [status_code |-> error.status_code, request |-> request,
                        result |-> <<>>, detail |-> error.detail]
             /\ monitoring_service' =
                  record_request(IF checked THEN run.monitoring
                                 ELSE monitoring_service,
                                 "POST", <<"/process-image", 0>>, status_code)
    /\ UNCHANGED <<async_resp, task_resp, first_final, final_answers,
                   health_resp, rag_resp, inflight, nqueries, query_result>>
    /\ UNCHANGED <<ragVars, taskVars>>

\* ----------------------- POST /process-image, step by step on the event loop
\* The same handler at the grain of the loop's scheduling: it suspends at
\* "await file.read()" (line 196) and nowhere else; a request inside
\* cutler_service.process_image (line 210) holds the loop's only thread.
InInference(s) ==
    /\ inflight[s].handler = "process_image"
    /\ inflight[s].pc = "inference"

\* A loop that stays free during the inference, as it would if the handler
\* awaited the call in an executor.
LoopFreeOffloaded == TRUE

\* The loop can run a handler only while no handler is inside an in-line call.
LoopFree == \A s \in Slots : ~InInference(s)

\* The answer of the step-by-step handler and the middleware's record of it.
process_image_answer(m, request, raised, result) ==
    LET error == process_image_except(raised[1])
        status_code == IF raised = <<>> THEN 200 ELSE error.status_code
    IN  /\ image_resp' =
             IF raised = <<>>
             THEN [status_code |-> 200, request |-> request,
                   result |-> <<result>>, detail |-> ""]
             ELSE [status_code |-> error.status_code, request |-> request,
                   result |-> <<>>, detail |-> error.detail]
        /\ monitoring_service' =
             record_request(m, "POST", <<"/process-image", 0>>, status_code)

\* Lines 187-196: the content type check, then the handler suspends in
\* file.read().
process_image_begin(s) ==
    /\ Serving
    /\ LoopFree
    /\ nrequests < MaxRequests
    /\ FreeSlot(s)
    /\ nrequests' = nrequests + 1
    /\ \E content_type \in ContentTypes :
         LET request == [content_type |-> content_type, size |-> 0,
                         read_ok |-> TRUE, inference_ok |-> TRUE]
         IN  IF content_type \notin allowed_file_types
             THEN /\ process_image_answer(monitoring_service, request,
                        validate_upload(content_type, 0), <<>>)
                  /\ UNCHANGED inflight
             ELSE /\ inflight' = [inflight EXCEPT ![s] =
                        [handler |-> "process_image", pc |-> "read",
                         request |-> request]]
                  /\ UNCHANGED <<image_resp, monitoring_service>>
    /\ UNCHANGED <<async_resp, task_resp, first_final, final_answers,
                   health_resp, rag_resp, nqueries, query_result, ran_in_line,
                   wrapped>>
    /\ UNCHANGED <<ragVars, taskVars>>

\* Lines 196-210: the read returns; after the size check and
\* record_file_upload the handler calls cutler_service.process_image in line.
process_image_read(s) ==
    /\ LoopFree
    /\ inflight[s].handler = "process_image"
    /\ inflight[s].pc = "read"
    /\ \E size \in FileSizes, read_ok \in BOOLEAN :
         LET request == [inflight[s].request EXCEPT !.size = size,
                                                    !.read_ok = read_ok]
             invalid == validate_upload(request.content_type, size)
         IN  IF ~read_ok \/ invalid # <<>>
             THEN /\ process_image_answer(monitoring_service, request,
                        IF ~read_ok THEN <<Exception("upload read failed")>>
                        ELSE invalid, <<>>)
                  /\ inflight' = [inflight EXCEPT ![s] = NoRequest]
                  /\ UNCHANGED ran_in_line
             ELSE /\ monitoring_service' =
                        record_file_upload(monitoring_service,
                                           request.content_type, "success",
                                           size)
                  /\ inflight' = [inflight EXCEPT ![s] =
                        [handler |-> "process_image", pc |-> "inference",
                         request |-> request]]
                  /\ ran_in_line' = ran_in_line \cup {"inference"}
                  /\ UNCHANGED image_resp
    /\ UNCHANGED <<nrequests, async_resp, task_resp, first_final,
                   final_answers, health_resp, rag_resp, nqueries,
                   query_result, wrapped>>
    /\ UNCHANGED <<ragVars, taskVars>>

\* cutler_service.py lines 80-159 and main.py lines 212-221: run_on_image
\* returns or raises, the service wraps the outcome and the handler answers.
process_image_return(s) ==
    /\ InInference(s)
    /\ \E inference_ok \in BOOLEAN :
         LET request == [inflight[s].request EXCEPT
                             !.inference_ok = inference_ok]
             run == CutlerProcessImage(monitoring_service, request.size,
                                       inference_ok)
             raised == IF run.raised # <<>> THEN run.raised
                       ELSE process_image_result(run.result)
         IN  /\ process_image_answer(run.monitoring, request, raised,
                                     run.result)
             /\ wrapped' = Outcome("cutler", ~inference_ok, run.raised,
                                   run.result)
             /\ ran_in_line' = IF inference_ok
                               THEN ran_in_line \cup {"tracking"}
                               ELSE ran_in_line
    /\ inflight' = [inflight EXCEPT ![s] = NoRequest]
    /\ UNCHANGED <<nrequests, async_resp, task_resp, first_final,
                   final_answers, health_resp, rag_resp, nqueries,
                   query_result>>
    /\ UNCHANGED <<ragVars, taskVars>>

\* ------------------------------------------------------ RagService.query
\* A guard that lets every call through.
query_not_initialized_unchecked == FALSE

\* Line 112: the guard in front of the counters and of the try block.
query_not_initialized == ~initialized

\* Line 113: the RuntimeError the guard raises.
NotInitialized ==
    Exception("RAG service not initialized. Call initialize() first.")

\* Python's a / b on integers: the quotient, kept as the fraction, or
\* ZeroDivisionError.
truediv(a, b) == [ZeroDivisionError |-> b = 0, num |-> a, den |-> b]

\* Lines 162-166: the metadata of a successful query, read from the
\* counters when the query returns; a failed query has none.
query_metadata(ok, total, successful) ==
    IF ok THEN <<[total_queries |-> total, successful_queries |-> successful,
                  success_rate |-> truediv(successful, total)]>>
    ELSE <<>>

\* A get_service_info that divides without looking at the divisor.
get_service_info_unguarded ==
    [initialized |-> initialized, total_queries |-> total_queries,
     successful_queries |-> successful_queries,
     success_rate |-> truediv(successful_queries, total_queries),
     initialization_time |-> initialization_time]

\* Lines 193-204: the success rate is 0 while no query has been counted.
get_service_info ==
    [initialized |-> initialized, total_queries |-> total_queries,
     successful_queries |-> successful_queries,
     success_rate |-> IF total_queries > 0
                      THEN truediv(successful_queries, total_queries)
                      ELSE truediv(0, 1),
     initialization_time |-> initialization_time]

\* Lines 120-191, from the executor's answer on: the counters, the metric
\* and the returned dict.  A retrieval failure is a normal return value.
query_return(ok) ==
    [success |-> ok, error |-> IF ok THEN "" ELSE "retrieval failed"]

\* A coroutine calls rag_service.query() itself.  Lines 112-132: the guard,
\* the counter and the hand-over of self.rag.query to the executor, in which
\* the coroutine suspends.
query(s) ==
    /\ nqueries < MaxQueries
    /\ FreeSlot(s)
    /\ nqueries' = nqueries + 1
    /\ IF query_not_initialized
       THEN /\ query_result' = [op |-> "query", raised |-> <<NotInitialized>>,
                                returned |-> <<>>, metadata |-> <<>>]
            /\ UNCHANGED <<total_queries, inflight>>
       ELSE /\ total_queries' = total_queries + 1
            /\ inflight' = [inflight EXCEPT ![s] =
                  [handler |-> "query", request |-> nqueries + 1]]
            /\ UNCHANGED query_result
    /\ UNCHANGED <<monitoring_service, nrequests, async_resp, task_resp,
                   first_final, final_answers, image_resp, health_resp,
                   rag_resp, ran_in_line, wrapped>>
    /\ UNCHANGED <<successful_queries, ragSetupVars, taskVars>>

\* Lines 134-191: the executor answers.  log_prediction_metrics is called in
\* line after a successful retrieval.
query_resume(s) ==
    /\ inflight[s].handler = "query"
    /\ \E ok \in BOOLEAN :
         /\ successful_queries' =
              IF ok THEN successful_queries + 1 ELSE successful_queries
         /\ monitoring_service' =
              record_prediction(monitoring_service, "rag",
                                IF ok THEN "success" ELSE "error", 0)
         /\ query_result' = [op |-> "query", raised |-> <<>>,
                             returned |-> <<query_return(ok)>>,
                             metadata |->
                                 query_metadata(ok, total_queries,
                                                successful_queries + 1)]
         /\ wrapped' = Outcome("rag", ~ok, <<>>, query_return(ok))
         /\ ran_in_line' =
              IF ok THEN ran_in_line \cup {"tracking"} ELSE ran_in_line
    /\ inflight' = [inflight EXCEPT ![s] = NoRequest]
    /\ UNCHANGED <<nrequests, async_resp, task_resp, first_final,
                   final_answers, image_resp, health_resp, rag_resp, nqueries>>
    /\ UNCHANGED <<total_queries, ragSetupVars, taskVars>>

\* ------------------------------------------- POST /rag/query (main.py)
\* Lines 167-169: whatever the try block raises becomes a 500.
rag_query_except(e) == HTTPException(500, Str(e))

\* A faulty handler that raises when the service reports a failure.
rag_query_response_raising(request, result, metadata) ==
    IF result.success
    THEN [status_code |-> 200, request |-> request, success |-> TRUE,
          error |-> "", detail |-> "",
          metadata |-> IF request.include_metadata THEN metadata ELSE <<>>]
    ELSE [status_code |-> 500, request |-> request, success |-> FALSE,
          error |-> "", detail |-> result.error, metadata |-> <<>>]

\* Lines 155-165: the RagQueryResponse built from the dict query() returned,
\* whatever its success flag; it is answered with status 200.
rag_query_response(request, result, metadata) ==
    [status_code |-> 200, request |-> request, success |-> result.success,
     error |-> result.error, detail |-> "",
     metadata |-> IF request.include_metadata THEN metadata ELSE <<>>]

\* Lines 144-152: the text query is counted as an upload, then query() runs
\* up to the executor call, or raises at its guard.
rag_query(s) ==
    /\ Serving
    /\ nrequests < MaxRequests
    /\ FreeSlot(s)
    /\ nrequests' = nrequests + 1
    /\ \E include_metadata \in BOOLEAN :
         LET request == [include_metadata |-> include_metadata]
             uploaded == record_file_upload(monitoring_service, "text_query",
                                            "success", 1)
             error == rag_query_except(NotInitialized)
         IN  IF query_not_initialized
             THEN /\ rag_resp' = [status_code |-> error.status_code,
                                  request |-> request, success |-> FALSE,
                                  error |-> "", detail |-> error.detail,
                                  metadata |-> <<>>]
                  /\ monitoring_service' =
                       record_request(uploaded, "POST", <<"/rag/query", 0>>,
                                      error.status_code)
                  /\ UNCHANGED <<total_queries, inflight>>
             ELSE /\ total_queries' = total_queries + 1
                  /\ inflight' = [inflight EXCEPT ![s] =
                        [handler |-> "rag_query", request |-> request]]
                  /\ monitoring_service' = uploaded
                  /\ UNCHANGED rag_resp
    /\ UNCHANGED <<async_resp, task_resp, first_final, final_answers,
                   image_resp, health_resp, nqueries, query_result,
                   ran_in_line, wrapped>>
    /\ UNCHANGED <<successful_queries, ragSetupVars, taskVars>>

\* The executor answers: RagService.query lines 134-191, then main.py lines
\* 155-165.
rag_query_resume(s) ==
    /\ inflight[s].handler = "rag_query"
    /\ \E ok \in BOOLEAN :
         LET result == query_return(ok)
             recorded == record_prediction(monitoring_service, "rag",
                            IF ok THEN "success" ELSE "error", 0)
             metadata == query_metadata(ok, total_queries,
                                        successful_queries + 1)
             response == rag_query_response(inflight[s].request, result,
                                            metadata)
         IN  /\ successful_queries' =
                  IF ok THEN successful_queries + 1 ELSE successful_queries
             /\ rag_resp' = response
             /\ wrapped' = Outcome("rag", ~ok, <<>>, result)
             /\ ran_in_line' =
                  IF ok THEN ran_in_line \cup {"tracking"} ELSE ran_in_line
             /\ monitoring_service' =
                  record_request(recorded, "POST", <<"/rag/query", 0>>,
                                 response.status_code)
    /\ inflight' = [inflight EXCEPT ![s] = NoRequest]
    /\ UNCHANGED <<nrequests, async_resp, task_resp, first_final,
                   final_answers, image_resp, health_resp, nqueries,
                   query_result>>
    /\ UNCHANGED <<total_queries, ragSetupVars, taskVars>>

\* ----------------------------------------------- RagService.health_check
\* Lines 209-213: the answer of an uninitialized service.
rag_not_initialized ==
    [status |-> "unhealthy", error |-> "RAG service not initialized"]

\* Lines 216-223: the answer built from the test query's result.
rag_health(test_response) ==
    [status |-> IF test_response.success THEN "healthy" ELSE "unhealthy",
     error |-> ""]

\* ---------------------------------------------------- GET /health (main.py)
\* Lines 92-104: the answer of the try block.
health_body(model_info_ok, rag_health_result) ==
    [status |-> "healthy",
     services |-> <<[mlflow |-> "available",
                     cutler |-> IF model_info_ok THEN "available" ELSE "error",
                     rag |-> rag_health_result.status]>>,
     error |-> ""]

\* Lines 105-111: the answer of the except clause.
health_body_unhealthy(text) ==
    [status |-> "unhealthy", services |-> <<>>, error |-> text]

health_answer(request, body) ==
    /\ health_resp' = [status_code |-> 200, request |-> request, body |-> body]
    /\ monitoring_service' =
         record_request(monitoring_service, "GET", <<"/health", 0>>, 200)

\* Lines 82-90: setup_mlflow and get_model_info run in line; an initialized
\* RAG service then starts its test query and the handler suspends in it.
health_check(s) ==
    /\ Serving
    /\ nrequests < MaxRequests
    /\ FreeSlot(s)
    /\ nrequests' = nrequests + 1
    /\ \E mlflow_ok \in BOOLEAN, model_info_ok \in BOOLEAN :
         LET request == [mlflow_ok |-> mlflow_ok,
                         model_info_ok |-> model_info_ok]
         IN  IF ~mlflow_ok
             THEN /\ health_answer(request,
                                   health_body_unhealthy("mlflow setup failed"))
                  /\ UNCHANGED <<inflight, total_queries>>
             ELSE IF ~initialized
             THEN /\ health_answer(request,
                        health_body(model_info_ok, rag_not_initialized))
                  /\ UNCHANGED <<inflight, total_queries>>
             ELSE /\ total_queries' = total_queries + 1
                  /\ inflight' = [inflight EXCEPT ![s] =
                        [handler |-> "health", request |-> request]]
                  /\ UNCHANGED <<health_resp, monitoring_service>>
    /\ ran_in_line' = ran_in_line \cup {"tracking"}
    /\ UNCHANGED <<async_resp, task_resp, first_final, final_answers,
                   image_resp, rag_resp, nqueries, query_result, wrapped>>
    /\ UNCHANGED <<successful_queries, ragSetupVars, taskVars>>

\* The executor answers the test query: RagService.query lines 134-191, then
\* RagService.health_check lines 218-223 and main.py lines 92-104.
health_check_resume(s) ==
    /\ inflight[s].handler = "health"
    /\ \E ok \in BOOLEAN :
         LET test_response == query_return(ok)
             recorded == record_prediction(monitoring_service, "rag",
                            IF ok THEN "success" ELSE "error", 0)
             request == inflight[s].request
         IN  /\ successful_queries' =
                  IF ok THEN successful_queries + 1 ELSE successful_queries
             /\ health_resp' =
                  [status_code |-> 200, request |-> request,
                   body |-> health_body(request.model_info_ok,
                                        rag_health(test_response))]
             /\ wrapped' = Outcome("rag", ~ok, <<>>, test_response)
             /\ ran_in_line' =
                  IF ok THEN ran_in_line \cup {"tracking"} ELSE ran_in_line
             /\ monitoring_service' =
                  record_request(recorded, "GET", <<"/health", 0>>, 200)
    /\ inflight' = [inflight EXCEPT ![s] = NoRequest]
    /\ UNCHANGED <<nrequests, async_resp, task_resp, first_final,
                   final_answers, image_resp, rag_resp, nqueries,
                   query_result>>
    /\ UNCHANGED <<total_queries, ragSetupVars, taskVars>>

\* ------------------------------------------- GET /rag/health (main.py)
\* main.py lines 135-138 return what RagService.health_check returns (lines
\* 206-230); the middleware records the request.
rag_health_answer(request, body) ==
    /\ health_resp' = [status_code |-> 200, request |-> request, body |-> body]
    /\ monitoring_service' =
         record_request(monitoring_service, "GET", <<"/rag/health", 0>>, 200)

\* rag_service.py lines 208-216: an uninitialized service answers at once;
\* an initialized one starts its test query, which counts itself and
\* suspends at the executor.
rag_health_check(s) ==
    /\ Serving
    /\ nrequests < MaxRequests
    /\ FreeSlot(s)
    /\ nrequests' = nrequests + 1
    /\ LET request == [route |-> "/rag/health"]
       IN  IF ~initialized
           THEN /\ rag_health_answer(request, rag_not_initialized)
                /\ UNCHANGED <<inflight, total_queries>>
           ELSE /\ total_queries' = total_queries + 1
                /\ inflight' = [inflight EXCEPT ![s] =
                      [handler |-> "rag_health", request |-> request]]
                /\ UNCHANGED <<health_resp, monitoring_service>>
    /\ UNCHANGED <<async_resp, task_resp, first_final, final_answers,
                   image_resp, rag_resp, nqueries, query_result, ran_in_line,
                   wrapped>>
    /\ UNCHANGED <<successful_queries, ragSetupVars, taskVars>>

\* The executor answers the test query: RagService.query lines 134-191, then
\* RagService.health_check lines 218-223.
rag_health_check_resume(s) ==
    /\ inflight[s].handler = "rag_health"
    /\ \E ok \in BOOLEAN :
         LET test_response == query_return(ok)
             recorded == record_prediction(monitoring_service, "rag",
                            IF ok THEN "success" ELSE "error", 0)
         IN  /\ successful_queries' =
                  IF ok THEN successful_queries + 1 ELSE successful_queries
             /\ health_resp' =
                  [status_code |-> 200, request |-> inflight[s].request,
                   body |-> rag_health(test_response)]
             /\ wrapped' = Outcome("rag", ~ok, <<>>, test_response)
             /\ ran_in_line' =
                  IF ok THEN ran_in_line \cup {"tracking"} ELSE ran_in_line
             /\ monitoring_service' =
                  record_request(recorded, "GET", <<"/rag/health", 0>>, 200)
    /\ inflight' = [inflight EXCEPT ![s] = NoRequest]
    /\ UNCHANGED <<nrequests, async_resp, task_resp, first_final,
                   final_answers, image_resp, rag_resp, nqueries,
                   query_result>>
    /\ UNCHANGED <<total_queries, ragSetupVars, taskVars>>

\* ------------------------------------- MonitoringService, called directly
\* Any caller, any arguments: the operations of the class, one per step.
Methods == {"GET", "POST"}
Endpoints == {<<"/health", 0>>, <<"/task/", 1>>}
StatusCodes == {200, 500}
ModelNames == {"cutler", "rag"}
Outcomes == {"success", "error"}
FileTypes == {"image/jpeg", "text_query"}
GaugeValues == 0..1

monVars == <<nrequests, async_resp, task_resp, first_final, final_answers,
             image_resp, health_resp, rag_resp, inflight, nqueries,
             query_result, ran_in_line, wrapped>>

call_record_request ==
    /\ Recorded(monitoring_service) < MaxRecords
    /\ \E method \in Methods, endpoint \in Endpoints, status \in StatusCodes :
         monitoring_service' =
             record_request(monitoring_service, method, endpoint, status)
    /\ UNCHANGED <<monVars, ragVars, taskVars>>

call_record_prediction ==
    /\ Recorded(monitoring_service) < MaxRecords
    /\ \E model_name \in ModelNames, status \in Outcomes,
          image_size \in FileSizes :
         monitoring_service' =
             record_prediction(monitoring_service, model_name, status,
                               image_size)
    /\ UNCHANGED <<monVars, ragVars, taskVars>>

call_record_file_upload ==
    /\ Recorded(monitoring_service) < MaxRecords
    /\ \E file_type \in FileTypes, status \in Outcomes, file_size \in FileSizes :
         monitoring_service' =
             record_file_upload(monitoring_service, file_type, status,
                                file_size)
    /\ UNCHANGED <<monVars, ragVars, taskVars>>

call_set_active_connections ==
    /\ \E count \in GaugeValues :
         monitoring_service' = set_active_connections(monitoring_service, count)
    /\ UNCHANGED <<monVars, ragVars, taskVars>>

call_set_model_memory_usage ==
    /\ \E model_name \in ModelNames, memory_bytes \in GaugeValues :
         monitoring_service' =
             set_model_memory_usage(monitoring_service, model_name,
                                    memory_bytes)
    /\ UNCHANGED <<monVars, ragVars, taskVars>>

Init == RagInit /\ HttpInit /\ TaskInit

\* Any number of coroutines call initialize(), each as often as it likes.
NextInit ==
    \/ \E c \in Callers : Initialize(c) \/ InitializeReturn(c)
    \/ \E s \in Slots : query(s) \/ query_resume(s)

SpecInit == Init /\ [][NextInit]_vars

\* The two upload endpoints of one server, without the worker.
NextUpload ==
    \/ startup_event
    \/ process_image
    \/ process_image_async_endpoint

SpecUpload == Init /\ [][NextUpload]_vars

\* Concurrent POST /process-image requests on one event loop.
NextLoop ==
    \/ startup_event
    \/ \E s \in Slots : process_image_begin(s)
    \/ \E s \in Slots : process_image_read(s)
    \/ \E s \in Slots : process_image_return(s)

SpecLoop == Init /\ [][NextLoop]_vars

\* Submissions, the worker, and polls that read the backend call by call.
NextPoll ==
    \/ process_image_async_endpoint
    \/ \E w \in Workers : WorkerPickUp(w)
    \/ \E w \in Workers : process_image_async(w)
    \/ \E s \in Slots : get_task_status_begin(s)
    \/ \E s \in Slots : get_task_status_read(s)

SpecPoll == Init /\ [][NextPoll]_vars

\* Submissions, polls and a worker that may die in the middle of a task.
NextCrash ==
    \/ process_image_async_endpoint
    \/ get_task_status
    \/ \E w \in Workers : WorkerPickUp(w)
    \/ \E w \in Workers : process_image_async(w)
    \/ \E w \in Workers : WorkerCrash(w)

SpecCrash == Init /\ [][NextCrash]_vars

\* The startup event, then the endpoints that reach the RAG service.
NextRag ==
    \/ startup_event
    \/ \E s \in Slots : health_check(s) \/ health_check_resume(s)
    \/ \E s \in Slots : rag_health_check(s) \/ rag_health_check_resume(s)
    \/ \E s \in Slots : rag_query(s) \/ rag_query_resume(s)

SpecRag == Init /\ [][NextRag]_vars

\* The operations of one MonitoringService in any order.  get_metrics and
\* get_metrics_content_type only read the registry.
NextMon ==
    \/ call_record_request
    \/ call_record_prediction
    \/ call_record_file_upload
    \/ call_set_active_connections
    \/ call_set_model_memory_usage

SpecMon == Init /\ [][NextMon]_vars

\* Submissions, polls and the worker, in any interleaving.
NextTask ==
    \/ process_image_async_endpoint
    \/ get_task_status
    \/ \E w \in Workers : WorkerPickUp(w) \/ process_image_async(w)

SpecTask == Init /\ [][NextTask]_vars

\* The same, with worker processes that keep running: a worker that can take
\* a message eventually takes one, and a task body that was started
\* eventually ends (task_time_limit ends it at the latest).
FairTask ==
    \A w \in Workers :
        WF_vars(WorkerPickUp(w)) /\ WF_vars(process_image_async(w))

\* Submissions and the workers.  GET /task/{task_id} only reads the result
\* backend, so what it answers at any moment is task_status_body of the
\* stored entry; the polls themselves are left to SpecTask.
NextTaskWork ==
    \/ process_image_async_endpoint
    \/ \E w \in Workers : WorkerPickUp(w) \/ process_image_async(w)

SpecTaskFair == Init /\ [][NextTaskWork]_vars /\ FairTask

\* The startup event, then /health and /process-image requests.
NextHttp ==
    \/ startup_event
    \/ process_image
    \/ \E s \in Slots : health_check(s) \/ health_check_resume(s)
    \/ \E s \in Slots : rag_query(s) \/ rag_query_resume(s)

SpecHttp == Init /\ [][NextHttp]_vars

\* =====================================================================
\* Properties of RagService.initialize (SpecInit)
\* =====================================================================

\* C1: N concurrent initialize() calls run the setup body exactly once and
\* every caller returns with initialized = True.  Stated for behaviours in
\* which no setup step fails, so that a second run is not a retry.
C1_ConcurrentInitializeRunsSetupOnce ==
    /\ failures = 0 => setup_runs <= 1
    /\ \A c \in Callers :
         ipc[c] \in {"skipped", "done"} => initialized /\ setup_runs >= 1

\* C10: a setup that fails at any step makes the call raise and leaves
\* initialized as it was (so it is True only after some call ran the setup
\* to its end); a later call that finds initialized False runs the setup
\* again from the start, and a call that completes has initialized the
\* storages of the object it built.
C10_FailureLeavesGuard ==
    \A c \in Callers :
      /\ (ipc[c] # "raised" /\ ipc'[c] = "raised") =>
            /\ initialized' = initialized
            /\ initialization_time' = initialization_time
      /\ failures' = failures + 1 => \E d \in Callers :
            ipc[d] \notin {"raised", "skipped", "done"} /\ ipc'[d] = "raised"
      /\ (ipc[c] = "idle" /\ ipc'[c] # "idle" /\ ~initialized) =>
            /\ setup_runs' = setup_runs + 1
            /\ ipc'[c] \in {"storages", "raised"}

C10_GuardState ==
    /\ initialized <=> initialization_time # None
    /\ \A c \in Callers : ipc[c] = "done" => iobj[c] \in storages
    /\ failures <= setup_runs

C10_FailedSetupIsRetried == []C10_GuardState /\ [][C10_FailureLeavesGuard]_vars

\* A first call failed, and the next call of the same caller ran the whole
\* setup and completed it; nobody else called.
C10_Witness ==
    /\ failures = 1
    /\ setup_runs = 2
    /\ ipc[1] = "done"
    /\ initialized
    /\ \A c \in Callers \ {1} : ipc[c] = "idle"

\* C11: whenever the service is not initialized (never initialized, being
\* initialized, or after a failed initialization) a query() call raises the
\* "not initialized" error at once: nothing is handed to the retrieval
\* backend, total_queries and successful_queries keep their values and no
\* prediction metric is recorded.  A retrieval failure is a returned dict
\* with another error text, so the two outcomes cannot be confused.
C11_Call ==
    nqueries' = nqueries + 1 =>
       IF ~initialized
       THEN /\ query_result'.op = "query"
            /\ query_result'.raised = <<NotInitialized>>
            /\ query_result'.returned = <<>>
            /\ inflight' = inflight
            /\ total_queries' = total_queries
            /\ successful_queries' = successful_queries
            /\ monitoring_service' = monitoring_service
       ELSE /\ query_result' = query_result
            /\ total_queries' = total_queries + 1

C11_Outcomes ==
    query_result.op = "query" =>
       IF query_result.raised # <<>>
       THEN query_result.raised = <<NotInitialized>>
       ELSE /\ query_result.returned # <<>>
            /\ query_result.returned[1].error # NotInitialized.detail

C11_QueryFailsFastWhenNotInitialized ==
    []C11_Outcomes /\ [][C11_Call]_vars

\* A query raised "not initialized" while an initialize() call was between
\* two of its awaits; no query has been counted.
C11_Witness ==
    /\ query_result.op = "query"
    /\ query_result.raised = <<NotInitialized>>
    /\ \E c \in Callers : ipc[c] \in {"storages", "pipeline", "insert"}
    /\ ~initialized
    /\ failures = 0
    /\ total_queries = 0

\* C27: once initialized is True, an initialize() call made from then on is
\* a no-op: it returns at the guard, runs no setup step and leaves rag and
\* initialization_time as they are; initialized never becomes False again,
\* and rag is never rebound.
C27_Step ==
    /\ initialized => initialized' /\ rag' = rag
    /\ \A c \in Callers :
         (initialized /\ ipc[c] = "idle" /\ ipc'[c] # "idle") =>
             /\ ipc'[c] = "skipped"
             /\ UNCHANGED <<rag, initialized, initialization_time, setup_runs,
                            storages, docs, failures, iobj>>

C27_InitializedIsFinal == [][C27_Step]_vars

\* A call made on the initialized service has returned at the guard while
\* a call that began before it is still in its setup.
C27_Witness ==
    /\ initialized
    /\ \E c \in Callers : ipc[c] = "skipped"
    /\ setup_runs >= 1

\* =====================================================================
\* Properties of a worker that can crash (SpecCrash)
\* =====================================================================

\* The task was picked up, has not ended, and no worker holds it: its worker
\* died.
Orphaned(t) ==
    /\ get_task_meta(t).status = "STARTED"
    /\ \A w \in Workers : wtask[w].id # t

\* This step answers a poll of the task.
Polls(t) ==
    Count(monitoring_service'.request_duration, <<"GET", <<"/task/", t>>>>) =
        Count(monitoring_service.request_duration, <<"GET", <<"/task/", t>>>>)
            + 1

\* C28: a task whose worker crashed after picking it up is never re-queued
\* or timed out: it stays out of the queue and out of every worker, never
\* reaches SUCCESS or FAILURE, and every later GET /task/{task_id} that is
\* answered says "processing".
C28_Step ==
    \A t \in TaskIds :
        Orphaned(t) =>
            /\ Orphaned(t)'
            /\ \A i \in 1..Len(queue') : queue'[i].id # t
            /\ t \notin finished'
            /\ Polls(t) /\ task_resp'.status_code = 200
                 => task_resp'.body.status = "processing"

C28_CrashedTaskStaysProcessing == [][C28_Step]_vars

\* Task 1 lost its worker; the new worker has since finished task 2, and a
\* poll of task 1 has been answered "processing".
C28_Witness ==
    /\ Orphaned(1)
    /\ finished = {2}
    /\ task_resp # NoResponse
    /\ task_resp.status_code = 200
    /\ task_resp.body.task_id = 1
    /\ task_resp.body.status = "processing"

\* =====================================================================
\* Properties of MonitoringService (SpecMon)
\* =====================================================================

\* The sum of a counter over the label sets that satisfy Keep.
SumWhere(f, Keep(_)) ==
    SumOf([k \in {j \in DOMAIN f : Keep(j)} |-> f[k]])

\* C22: for every model_name the observation count of
\* model_prediction_duration_seconds equals the sum over status of
\* model_predictions_total, and for every (method, endpoint) the observation
\* count of http_request_duration_seconds equals the sum over status of
\* http_requests_total.
C22_HistogramsMatchCounters ==
    LET m == monitoring_service
    IN  /\ \A model_name \in ModelNames :
             LET IsModel(k) == k[1] = model_name
             IN  Count(m.prediction_duration, model_name) =
                     SumWhere(m.prediction_counter, IsModel)
        /\ \A method \in Methods, endpoint \in Endpoints :
             LET IsRoute(k) == k[1] = method /\ k[2] = endpoint
             IN  Count(m.request_duration, <<method, endpoint>>) =
                     SumWhere(m.request_counter, IsRoute)

\* Two predictions of one model with different outcomes and a request have
\* been recorded.
C22_Witness ==
    /\ Count(monitoring_service.prediction_counter, <<"cutler", "success">>) = 1
    /\ Count(monitoring_service.prediction_counter, <<"cutler", "error">>) = 1
    /\ Count(monitoring_service.prediction_duration, "cutler") = 2
    /\ Count(monitoring_service.request_duration,
             <<"GET", <<"/health", 0>>>>) = 1

\* C23: no operation of MonitoringService lowers a counter or the
\* observation count of a histogram, or removes one of their label sets.
NonDecreasing(f, g) ==
    /\ DOMAIN f \subseteq DOMAIN g
    /\ \A k \in DOMAIN f : g[k] >= f[k]

C23_Step ==
    LET m == monitoring_service
        n == monitoring_service'
    IN  /\ NonDecreasing(m.request_counter, n.request_counter)
        /\ NonDecreasing(m.request_duration, n.request_duration)
        /\ NonDecreasing(m.prediction_counter, n.prediction_counter)
        /\ NonDecreasing(m.prediction_duration, n.prediction_duration)
        /\ NonDecreasing(m.file_upload_counter, n.file_upload_counter)
        /\ NonDecreasing(m.file_upload_size, n.file_upload_size)

C23_CountersNeverDecrease == [][C23_Step]_vars

\* A counter stands at 2 while a gauge, set before, is back at 0.
C23_Witness ==
    /\ Count(monitoring_service.file_upload_counter,
             <<"image/jpeg", "success">>) = 2
    /\ Count(monitoring_service.file_upload_size, "image/jpeg") = 2
    /\ "cutler" \in DOMAIN monitoring_service.model_memory_usage
    /\ monitoring_service.model_memory_usage["cutler"] = 0

\* C29: when a step in the body of process_image_async raises, the handler
\* records a prediction with status "error" and re-raises the same
\* exception: the task is stored as FAILURE with the text of the exception
\* the body raised, never with that of another exception raised by the
\* handler itself.
BodyErrorTexts == {RaisedText(path) : path \in TaskPaths}

C29_Step ==
    \A w \in Workers :
        LET t == wtask[w].id
        IN  (/\ wpc[w] = "running"
             /\ t \in finished'
             /\ t \in DOMAIN meta'
             /\ meta'[t].status = "FAILURE") =>
                /\ meta'[t].exc \in BodyErrorTexts
                /\ Count(worker_monitoring'[w].prediction_counter,
                         <<"cutler", "error">>) =
                     Count(worker_monitoring[w].prediction_counter,
                           <<"cutler", "error">>) + 1

C29_FailureKeepsItsException == [][C29_Step]_vars

\* C33: every run opened by start_run in process_image_async is closed by
\* end_run before the task reaches a terminal state, on every path, so a
\* worker that is between tasks, or that picks one up, has no active run.
C33_Step ==
    \A w \in Workers :
        (wpc[w] = "idle" /\ wpc'[w] = "running") => ~active_run[w]

C33_NoRunOutlivesItsTask ==
    /\ [](\A w \in Workers : wpc[w] = "idle" => ~active_run[w])
    /\ [][C33_Step]_vars

\* =====================================================================
\* Properties of the upload endpoints (SpecUpload)
\* =====================================================================

\* The request is one the validation turns away.
Rejected(request) ==
    \/ request.content_type \notin allowed_file_types
    \/ request.size > max_file_size

\* This step answers a POST to the route.
Answers(route) ==
    Count(monitoring_service'.request_duration, <<"POST", route>>) =
        Count(monitoring_service.request_duration, <<"POST", route>>) + 1

\* Nothing but the request metric, the request count and the answer changes.
OnlyRequestMetric ==
    /\ [monitoring_service' EXCEPT
            !.request_counter = monitoring_service.request_counter,
            !.request_duration = monitoring_service.request_duration]
         = monitoring_service
    /\ UNCHANGED <<ran_in_line, wrapped, inflight, ragVars, taskVars>>

\* C24: an upload rejected by validation on POST /process-image or on
\* POST /process-image/async changes the request metric only: no
\* file_uploads_total increment, no prediction metric, no inference call
\* and no task enqueued.
C24_Step ==
    /\ Answers(<<"/process-image", 0>>) /\ Rejected(image_resp'.request)
         => OnlyRequestMetric
    /\ Answers(<<"/process-image/async", 0>>) /\ Rejected(async_resp'.request)
         => OnlyRequestMetric

C24_RejectedUploadOnlyCounted == [][C24_Step]_vars

\* Both endpoints have turned an upload away, one for its type and one for
\* its size, and an accepted upload has been counted and enqueued.
C24_Witness ==
    /\ image_resp.status_code = 400
    /\ async_resp # NoResponse
    /\ async_resp.request.content_type \in allowed_file_types
    /\ async_resp.request.size > max_file_size
    /\ async_resp.task_id = None
    /\ Len(queue) = 1
    /\ SumOf(monitoring_service.file_upload_counter) = 1

\* =====================================================================
\* Properties of the event loop (SpecLoop)
\* =====================================================================

\* C25: within one server process at most one call into the shared model
\* instance is in flight at any moment, whatever the number and the
\* interleaving of concurrent POST /process-image requests.
C25_OneInferenceAtATime ==
    Cardinality({s \in Slots : InInference(s)}) <= 1

\* One request is inside the model while another, accepted before it, is
\* still suspended in its read.
C25_Witness ==
    /\ \E s \in Slots : InInference(s)
    /\ \E s \in Slots : /\ inflight[s].handler = "process_image"
                        /\ inflight[s].pc = "read"

\* =====================================================================
\* Properties of a poll that reads call by call (SpecPoll)
\* =====================================================================

\* C26: every GET /task/{task_id} response agrees with one task state,
\* though the handler asks the handle several times while the worker moves
\* the task on: a result only with "completed", an error only with "failed",
\* neither with "processing", and the body is the one that every state the
\* handler was given calls for.
C26_ResponseMatchesOneState ==
    (task_resp # NoResponse /\ task_resp.status_code = 200) =>
        LET body == task_resp.body
        IN  /\ body.result # <<>> => body.status = "completed"
            /\ body.error # "" => body.status = "failed"
            /\ body.status = "processing" =>
                   body.result = <<>> /\ body.error = ""
            /\ body.status \in {"completed", "failed", "processing"}
            /\ \A m \in task_resp.reads :
                   body = task_status_body(body.task_id, m)

\* A poll has answered "completed" after three calls on the handle while the
\* worker was in the middle of another task.
C26_Witness ==
    /\ task_resp # NoResponse
    /\ task_resp.status_code = 200
    /\ task_resp.body.status = "completed"
    /\ task_resp.nreads = 3
    /\ \E w \in Workers : wpc[w] = "running"

\* =====================================================================
\* Properties of the task ledger (SpecTask)
\* =====================================================================
Answered(r) == r.status_code # 0

TaskState(t) == get_task_meta(t).status

\* C2: polling a task id that no submission returned is answered with a
\* distinct error, never with the "processing" answer of a pending task.
C2_UnknownTaskIsNotProcessing ==
    (Answered(task_resp) /\ ~task_resp.known) =>
        ~(task_resp.status_code = 200 /\ task_resp.body.status = "processing")

\* C3: a task whose inference failed ends in FAILURE, and a poll of it
\* never answers "completed".
C3_InferenceFailureFailsTask ==
    /\ \A t \in inference_failed : TaskState(t) = "FAILURE"
    /\ (Answered(task_resp) /\ task_resp.body.task_id \in inference_failed)
          => task_resp.body.status # "completed"

\* C4: a poll answers completed/failed only for a task the worker has
\* finished; after the first completed/failed answer every poll of that id
\* repeats it; a poll changes neither the result backend nor the queue.
C4_PollState ==
    /\ (task_resp.status_code = 200
          /\ task_resp.body.status \in {"completed", "failed"})
          => task_resp.body.task_id \in finished
    /\ (task_resp.status_code = 200
          /\ Answered(first_final[task_resp.body.task_id]))
          => task_resp.body = first_final[task_resp.body.task_id].body
    /\ \A t \in TaskIds : Answered(first_final[t]) =>
          first_final[t].body = task_status_body(t, get_task_meta(t))

TaskPolls(m, t) == Count(m.request_duration, <<"GET", <<"/task/", t>>>>)

C4_PollIsRead ==
    (\E t \in TaskIds :
        TaskPolls(monitoring_service', t) # TaskPolls(monitoring_service, t))
    => UNCHANGED <<meta, queue, issued, wpc, wtask, finished>>

C5_Step(from, to) ==
    \/ to = from
    \/ from = "PENDING" /\ to = "STARTED"
    \/ from = "STARTED" /\ to \in READY_STATES

C5_LifecycleOrder ==
    [][\A t \in TaskIds : C5_Step(TaskState(t), TaskState(t)')]_vars

\* One task has ended in SUCCESS and another in FAILURE.
C5_Witness ==
    \E t, u \in finished : TaskState(t) = "SUCCESS" /\ TaskState(u) = "FAILURE"

\* C8: POST /process-image/async answers a disallowed content type with 400
\* and an oversized payload with 413, never with a 5xx.
C8_AsyncValidationIs4xx ==
    Answered(async_resp) =>
       LET invalid == validate_upload(async_resp.request.content_type,
                                      async_resp.request.size)
       IN  invalid # <<>> => async_resp.status_code = invalid[1].status_code

\* C13: a tracking call that raises (start_run, log_prediction_metrics,
\* end_run) never changes the outcome of the task it observes: unless the
\* inference itself failed, the task ends in SUCCESS with a result whose
\* success field is true.
C13_TrackingFailureIsSwallowed ==
    \A t \in tracking_failed \ inference_failed :
        /\ TaskState(t) = "SUCCESS"
        /\ get_task_meta(t).result[1].success

\* C14: one run of the task process_image_async adds exactly 1 to
\* model_predictions_total{model_name="cutler"}, summed over status, and
\* exactly one observation to model_prediction_duration_seconds of "cutler".
PredictionsRecorded(m, model_name) ==
    Count(m.prediction_counter, <<model_name, "success">>)
        + Count(m.prediction_counter, <<model_name, "error">>)

C14_Run(w) ==
    (wpc[w] = "running" /\ wpc'[w] = "idle") =>
        /\ PredictionsRecorded(worker_monitoring'[w], "cutler") =
              PredictionsRecorded(worker_monitoring[w], "cutler") + 1
        /\ Count(worker_monitoring'[w].prediction_duration, "cutler") =
              Count(worker_monitoring[w].prediction_duration, "cutler") + 1

C14_OutcomeRecordedOnce == [][\A w \in Workers : C14_Run(w)]_vars

\* C16: every accepted submission gets a task id that no other submission
\* got, also when the payloads are identical; a step that changes what is
\* stored for one task changes nothing stored for any other, and a poll of
\* an id is answered from that id's entry alone.
AcceptedSubmissions ==
    Count(monitoring_service.request_counter,
          <<"POST", <<"/process-image/async", 0>>, 200>>)

C16_DistinctIds ==
    /\ Cardinality(issued) = AcceptedSubmissions
    /\ \A i, j \in DOMAIN queue : i # j => queue[i].id # queue[j].id
    /\ \A i \in DOMAIN queue :
         /\ queue[i].id \in issued
         /\ queue[i].id \notin DOMAIN meta
         /\ \A w \in Workers : wpc[w] = "running" => wtask[w].id # queue[i].id
    /\ DOMAIN meta \subseteq issued

C16_OwnLifecycle ==
    /\ \A t, u \in TaskIds :
         (t # u /\ get_task_meta(t)' # get_task_meta(t))
            => get_task_meta(u)' = get_task_meta(u)
    /\ \A t \in TaskIds :
         (TaskPolls(monitoring_service', t) # TaskPolls(monitoring_service, t)
            /\ task_resp'.status_code = 200)
            => task_resp'.body = task_status_body(t, get_task_meta(t))

C16_SubmissionsAreIndependent ==
    []C16_DistinctIds /\ [][C16_OwnLifecycle]_vars

\* The same payload was submitted twice: the first task is being executed,
\* the second, under another id, still waits in the queue.
C16_Witness ==
    /\ \E w \in Workers :
         /\ wpc[w] = "running"
         /\ wtask[w] = [id |-> 1, size |-> 1]
    /\ queue = <<[id |-> 2, size |-> 1]>>
    /\ TaskState(1) = "STARTED"
    /\ TaskState(2) = "PENDING"

\* C17: with workers that keep running, every accepted task is eventually
\* finished, and from the moment its inference has succeeded GET
\* /task/{task_id} answers "completed" with a result whose success field is
\* true (the answer GET gives is task_status_body of the stored entry).
CompletedOk(t) ==
    LET body == task_status_body(t, get_task_meta(t))
    IN  /\ body.status = "completed"
        /\ body.result # <<>>
        /\ body.result[1].success

C17_AcceptedTaskCompletes ==
    /\ \A t \in TaskIds :
         (t \in issued) ~>
             (t \in finished /\ (t \in inference_succeeded => CompletedOk(t)))
    /\ [](\A t \in inference_succeeded : CompletedOk(t))

\* Both accepted tasks have been run; the inference of the first succeeded
\* and GET /task/1 answers "completed" with success true.
C17_Witness ==
    /\ issued = {1, 2}
    /\ finished = {1, 2}
    /\ 1 \in inference_succeeded
    /\ CompletedOk(1)
    /\ queue = <<>>

\* C18: POST /process-image/async answers {task_id, status: "processing"}
\* in the step that enqueues the task: the message is then the newest in
\* the queue, nothing is stored for the task yet, and no worker has moved.
\* The answer is given whatever the workers are doing.
C18_Answer ==
    AcceptedSubmissions' = AcceptedSubmissions + 1 =>
        /\ async_resp'.status_code = 200
        /\ async_resp'.status = "processing"
        /\ async_resp'.task_id \notin issued
        /\ queue' = Append(queue, [id |-> async_resp'.task_id,
                                   size |-> async_resp'.request.size])
        /\ async_resp'.task_id \notin DOMAIN meta'
        /\ UNCHANGED <<meta, wpc, wtask, finished>>

C18_Accepted ==
    (Answered(async_resp) /\ async_resp.status_code = 200) =>
        /\ async_resp.status = "processing"
        /\ async_resp.task_id \in issued

C18_AnswerDoesNotWaitForWorker == []C18_Accepted /\ [][C18_Answer]_vars

\* Two submissions have been answered and no worker has ever run.
C18_Witness ==
    /\ AcceptedSubmissions = 2
    /\ async_resp.status_code = 200
    /\ async_resp.status = "processing"
    /\ async_resp.task_id = 2
    /\ Len(queue) = 2
    /\ meta = <<>>
    /\ finished = {}
    /\ \A w \in Workers : wpc[w] = "idle"

\* C21: every label value passed to a metric is one of a set fixed at
\* startup: an endpoint label is a route of the application, never a path
\* that carries a request's own text such as a task id, and a file_type
\* label is an allowed content type or one of the two fixed names.
Routes ==
    {<<"/health", 0>>, <<"/process-image", 0>>, <<"/process-image/async", 0>>,
     <<"/rag/query", 0>>, <<"/task/", 0>>}

FileTypeLabels == allowed_file_types \cup {"image", "text_query"}

C21_LabelsAreBounded ==
    /\ \A k \in DOMAIN monitoring_service.request_counter : k[2] \in Routes
    /\ \A k \in DOMAIN monitoring_service.request_duration : k[2] \in Routes
    /\ \A k \in DOMAIN monitoring_service.file_upload_counter :
         k[1] \in FileTypeLabels
    /\ DOMAIN monitoring_service.file_upload_size \subseteq FileTypeLabels

\* =====================================================================
\* Properties of the HTTP handlers (SpecHttp)
\* =====================================================================

\* C6: /health answers "healthy" at the top level only if the model
\* sub-check reports no error and the RAG sub-check is not "unhealthy".
C6_HealthyOnlyIfAllHealthy ==
    (Answered(health_resp) /\ health_resp.body.status = "healthy") =>
        /\ health_resp.body.services[1].cutler # "error"
        /\ health_resp.body.services[1].rag # "unhealthy"

\* C7: when setup_mlflow raises, /health still reports every sub-check:
\* the tracking backend as unhealthy, the model and the RAG service with
\* their own results.
C7_SubChecksAreIsolated ==
    (Answered(health_resp) /\ ~health_resp.request.mlflow_ok) =>
        /\ health_resp.body.services # <<>>
        /\ health_resp.body.services[1].mlflow # "available"
        /\ health_resp.body.services[1].cutler =
              (IF health_resp.request.model_info_ok THEN "available"
               ELSE "error")

\* C9: POST /process-image answers 400 "Invalid file type" for a content
\* type that is not allowed and 413 "File too large" for an allowed type
\* whose payload, once read, is oversized; neither is turned into a 500.
C9_SyncValidationPassesThrough ==
    Answered(image_resp) =>
       LET request == image_resp.request
       IN  /\ request.content_type \notin allowed_file_types =>
                /\ image_resp.status_code = 400
                /\ image_resp.detail = "Invalid file type"
           /\ (request.content_type \in allowed_file_types
                 /\ request.read_ok
                 /\ request.size > max_file_size) =>
                /\ image_resp.status_code = 413
                /\ image_resp.detail = "File too large"

\* Both rejections have been answered, the 413 last.
C9_Witness ==
    /\ Count(monitoring_service.request_counter,
             <<"POST", <<"/process-image", 0>>, 400>>) >= 1
    /\ image_resp.status_code = 413
    /\ image_resp.request.content_type \in allowed_file_types
    /\ image_resp.request.size > max_file_size

\* C12: no handler runs an inference, a retrieval or a tracking-backend
\* call on the event-loop thread: each is handed to the executor, so that
\* other requests are served while it executes.  (A handler's action is one
\* uninterrupted run of the event-loop thread; a call made inside it has
\* returned before any other handler can take a step.)
C12_BlockingCallsAreOffloaded ==
    ran_in_line \cap {"inference", "retrieval", "tracking"} = {}

\* C15 (as stated): a unit of work that fails inside
\* CutlerService.process_image or RagService.query is re-raised to the
\* caller after the error metric is recorded; it never becomes a return
\* value.
C15_FailureIsReraised ==
    (wrapped.op # "none" /\ wrapped.failed) =>
        /\ wrapped.raised # <<>>
        /\ wrapped.returned = <<>>

\* C15 (amended): a unit of work that fails inside
\* CutlerService.process_image or RagService.query has its error metric
\* recorded and is handed to the caller as a normal return value, a dict
\* with success False and the error text; nothing is raised.
C15_FailureIsReturned ==
    wrapped.op # "none" =>
        /\ wrapped.raised = <<>>
        /\ wrapped.returned # <<>>
        /\ wrapped.returned[1].success = ~wrapped.failed
        /\ wrapped.failed =>
              /\ wrapped.returned[1].error # ""
              /\ Count(monitoring_service.prediction_counter,
                       <<wrapped.op, "error">>) >= 1

\* An inference has failed in POST /process-image and, after it, a
\* retrieval in RagService.query; each left its error metric.
C15_Witness ==
    /\ wrapped.op = "rag"
    /\ wrapped.failed
    /\ Count(monitoring_service.prediction_counter, <<"cutler", "error">>) >= 1
    /\ Count(monitoring_service.prediction_counter, <<"rag", "error">>) >= 1

\* C19: when the inference fails during a POST /process-image whose upload
\* passed the checks, the answer is HTTP 500 with the error text of the
\* failure as detail; it is never a 2xx.
InferenceErrorText == CutlerProcessImage(NewMonitoringService, 0, FALSE).result.error

C19_SyncInferenceFailureIs500 ==
    (/\ Answered(image_resp)
     /\ validate_upload(image_resp.request.content_type,
                        image_resp.request.size) = <<>>
     /\ image_resp.request.read_ok
     /\ ~image_resp.request.inference_ok) =>
        /\ image_resp.status_code = 500
        /\ image_resp.detail = InferenceErrorText
        /\ image_resp.result = <<>>

\* A valid upload whose inference failed has been answered with 500.
C19_Witness ==
    /\ image_resp.status_code = 500
    /\ validate_upload(image_resp.request.content_type,
                       image_resp.request.size) = <<>>
    /\ image_resp.request.read_ok
    /\ ~image_resp.request.inference_ok
    /\ wrapped.op = "cutler"
    /\ wrapped.failed

\* C20 (as stated): a retrieval failure during POST /rag/query on an
\* initialized service is answered with a 5xx.
RetrievalErrorText == query_return(FALSE).error

RagErrors(m) == Count(m.prediction_counter, <<"rag", "error">>)

C20_RetrievalFailureIs5xx ==
    (/\ Answered(rag_resp)
     /\ RetrievalErrorText \in {rag_resp.error, rag_resp.detail}) =>
        rag_resp.status_code \in 500..599

\* C20 (amended): a retrieval failure during POST /rag/query on an
\* initialized service is answered with HTTP 200 and a body whose success
\* field is false and whose error field is the error text; it is not
\* answered with a 5xx.
C20_Answer ==
    \A s \in Slots :
        (/\ inflight[s].handler = "rag_query"
         /\ inflight'[s] = NoRequest
         /\ RagErrors(monitoring_service') = RagErrors(monitoring_service) + 1)
        => /\ initialized
           /\ rag_resp'.status_code = 200
           /\ ~rag_resp'.success
           /\ rag_resp'.error = RetrievalErrorText

C20_Answered ==
    (/\ Answered(rag_resp)
     /\ RetrievalErrorText \in {rag_resp.error, rag_resp.detail}) =>
        /\ rag_resp.status_code = 200
        /\ ~rag_resp.success
        /\ rag_resp.error = RetrievalErrorText

C20_RetrievalFailureIsReturned == []C20_Answered /\ [][C20_Answer]_vars

\* POST /rag/query on an initialized service has been answered 200 with
\* success false after its retrieval failed.
C20_Witness ==
    /\ initialized
    /\ rag_resp.status_code = 200
    /\ ~rag_resp.success
    /\ rag_resp.error = RetrievalErrorText
    /\ RagErrors(monitoring_service) >= 1

\* =====================================================================
\* Properties of the query counters (SpecInit)
\* =====================================================================

\* A rate that was computed without a division by zero and lies in [0, 1].
InUnitInterval(r) ==
    /\ ~r.ZeroDivisionError
    /\ r.den > 0
    /\ 0 <= r.num
    /\ r.num <= r.den

\* Queries that passed the guard: those suspended at the executor and those
\* that have returned, each of which recorded one "rag" prediction.
PassedGuard ==
    Cardinality({s \in Slots :
                    inflight[s].handler \in {"query", "rag_query", "health"}})
        + PredictionsRecorded(monitoring_service, "rag")

\* C30: in every reachable state, with concurrent queries suspended at the
\* executor, 0 <= successful_queries <= total_queries, total_queries is the
\* number of queries that passed the initialization check, and the
\* success_rate of the query metadata and of get_service_info is computed
\* without a division by zero and lies in [0, 1].
C30_CountersAndRates ==
    /\ 0 <= successful_queries
    /\ successful_queries <= total_queries
    /\ total_queries = PassedGuard
    /\ InUnitInterval(get_service_info.success_rate)
    /\ (query_result.op = "query" /\ query_result.metadata # <<>>) =>
           /\ InUnitInterval(query_result.metadata[1].success_rate)
           /\ query_result.metadata[1].total_queries >= 1

\* Two queries were suspended together; one has returned a success, whose
\* metadata gives the rate 1/2, and the other is still at the executor.
C30_Witness ==
    /\ query_result.op = "query"
    /\ query_result.metadata # <<>>
    /\ query_result.metadata[1].success_rate = truediv(1, 2)
    /\ \E s \in Slots : inflight[s].handler = "query"
    /\ get_service_info.success_rate = truediv(1, 2)

\* =====================================================================
\* Properties of the endpoints that reach the RAG service (SpecRag)
\* =====================================================================

\* The initialize() call of the startup event has raised.
StartupFailed == failures > 0

\* This step answers a request to the route.
Responds(method, route) ==
    Count(monitoring_service'.request_duration, <<method, route>>) =
        Count(monitoring_service.request_duration, <<method, route>>) + 1

\* What a health answer says about the RAG service: the status of the RAG
\* sub-check, or "none" when GET /health ended in its except clause before
\* reaching it.
RagStatusIn(resp) ==
    IF "route" \in DOMAIN resp.request THEN resp.body.status
    ELSE IF resp.body.services = <<>> THEN "none"
    ELSE resp.body.services[1].rag

\* C31: when the initialization of the startup event has failed the
\* application serves requests all the same, and from then on the RAG
\* service stays uninitialized whatever requests arrive: no step
\* initializes it, every POST /rag/query is answered with status 500, and
\* every RAG health check, by GET /rag/health or inside GET /health, reports
\* "unhealthy".
C31_Step ==
    StartupFailed =>
        /\ Serving /\ Serving'
        /\ ~initialized /\ ~initialized'
        /\ UNCHANGED <<rag, setup_runs, failures, total_queries,
                       successful_queries>>
        /\ Responds("POST", <<"/rag/query", 0>>) => rag_resp'.status_code = 500
        /\ Responds("GET", <<"/rag/health", 0>>) =>
               RagStatusIn(health_resp') = "unhealthy"
        /\ Responds("GET", <<"/health", 0>>) =>
               RagStatusIn(health_resp') \in {"unhealthy", "none"}

C31_FailedStartupStaysUninitialized == [][C31_Step]_vars

\* After a failed startup a query has been answered 500, GET /rag/health has
\* been answered "unhealthy" and so has the RAG part of a GET /health.
C31_Witness ==
    /\ StartupFailed
    /\ rag_resp # NoResponse
    /\ rag_resp.status_code = 500
    /\ Count(monitoring_service.request_counter,
             <<"GET", <<"/rag/health", 0>>, 200>>) = 1
    /\ health_resp # NoResponse
    /\ "route" \notin DOMAIN health_resp.request
    /\ RagStatusIn(health_resp) = "unhealthy"

\* This step starts a request and answers it without suspending.
AnswersAtOnce(route) == Responds("GET", route) /\ nrequests' = nrequests + 1

\* This step starts a health request that suspends in its test query.
SuspendsInTestQuery(handler) ==
    \E s \in Slots : /\ inflight[s] = NoRequest
                     /\ inflight'[s].handler = handler

\* This step answers a health request that was suspended.
AnswersAfterTestQuery(route) == Responds("GET", route) /\ nrequests' = nrequests

\* C32: on an initialized RAG service each GET /rag/health and each
\* GET /health runs one retrieval query: the request adds exactly 1 to
\* total_queries when it starts the query, and when the query returns it
\* records one "rag" prediction and adds 1 to successful_queries if the
\* query succeeded; on an uninitialized service it changes no counter.
C32_Request(route, handler) ==
    /\ AnswersAtOnce(route) =>
           /\ ~initialized
           /\ UNCHANGED <<total_queries, successful_queries>>
           /\ PredictionsRecorded(monitoring_service, "rag")' =
                  PredictionsRecorded(monitoring_service, "rag")
    /\ SuspendsInTestQuery(handler) =>
           /\ initialized
           /\ total_queries' = total_queries + 1
           /\ UNCHANGED successful_queries
    /\ AnswersAfterTestQuery(route) =>
           /\ UNCHANGED total_queries
           /\ PredictionsRecorded(monitoring_service, "rag")' =
                  PredictionsRecorded(monitoring_service, "rag") + 1
           /\ successful_queries' =
                  IF RagStatusIn(health_resp') = "healthy"
                  THEN successful_queries + 1
                  ELSE successful_queries

C32_Step ==
    /\ C32_Request(<<"/health", 0>>, "health")
    /\ C32_Request(<<"/rag/health", 0>>, "rag_health")

C32_HealthCheckRunsOneQuery == [][C32_Step]_vars

====
